---------------------------- MODULE Spec2Model ----------------------------
(***************************************************************************)
(* A model of the Frontier scan cleaners:                                  *)
(*   MS01  src/frontier_scans_cleanup/cleanup_ms01.py  FrontierCleanerMS01 *)
(*   C4C5  src/frontier_scans_cleanup/cleanup_c4c5.py  FrontierCleaner     *)
(*   FC    src/frontier_cleanup.py                     FrontierCleaner     *)
(*                                                                         *)
(* Strings are sequences of one-character strings, so that the regular     *)
(* expressions, str.split, Path.stem/suffix, str.lower and the comparison  *)
(* of paths are computed character by character as Python computes them.  *)
(* A path is the sequence of its components below the export root.  Glob   *)
(* patterns are matched case-sensitively (pathlib on a POSIX system), time *)
(* stamps are rendered in UTC, and every directory entry whose name        *)
(* matches an image glob is a regular file.                                *)
(***************************************************************************)
EXTENDS Integers, Sequences, FiniteSets, TLC

VARIABLES variant, entry, reorg, convert_bw, fs, fs0, dirs, rolls, rollIdx,
          pc, images, imageNum, first_image_mtime, dest_dir,
          need_to_convert_bw, export_dirs, effects, failures, image_num, run

vars == <<variant, entry, reorg, convert_bw, fs, fs0, dirs, rolls, rollIdx,
          pc, images, imageNum, first_image_mtime, dest_dir,
          need_to_convert_bw, export_dirs, effects, failures, image_num, run>>

---------------------------------------------------------------------------
(* Bounds of the model. *)

\* the largest number of files an export starts with
MaxImages == 3

\* the largest number of tag writes the MetadataWriter fails
MaxWriteFailures == 1

\* the largest number of times a cleaner is run on one export
MaxRuns == 2

\* the largest zero-based position of an image in a long roll
MaxPosition == 1001

---------------------------------------------------------------------------
(* Characters and strings. *)

\* the characters file names are written in, in code point order
Alphabet ==
    <<" ", "-", ".", "0", "1", "2", "3", "4", "5", "6", "7", "8", "9",
      "A", "B", "C", "D", "E", "F", "G", "H", "I", "J", "K", "L", "M",
      "N", "O", "P", "Q", "R", "S", "T", "U", "V", "W", "X", "Y", "Z",
      "_",
      "a", "b", "c", "d", "e", "f", "g", "h", "i", "j", "k", "l", "m",
      "n", "o", "p", "q", "r", "s", "t", "u", "v", "w", "x", "y", "z">>

OrdTable ==
    [c \in {Alphabet[i] : i \in DOMAIN Alphabet} |->
        CHOOSE i \in DOMAIN Alphabet : Alphabet[i] = c]

\* ord(c), up to an order-preserving renumbering
Ord(c) == OrdTable[c]

DigitChars == <<"0", "1", "2", "3", "4", "5", "6", "7", "8", "9">>

\* the regular expression class \d
IsDigit(c) == \E i \in DOMAIN DigitChars : DigitChars[i] = c

DigitValue(c) == (CHOOSE i \in DOMAIN DigitChars : DigitChars[i] = c) - 1

AllDigits(s) == \A i \in DOMAIN s : IsDigit(s[i])

\* str.lower() of one character
LowerChar(c) ==
    IF Ord(c) >= Ord("A") /\ Ord(c) <= Ord("Z")
    THEN Alphabet[Ord(c) - Ord("A") + Ord("a")]
    ELSE c

\* str.lower()
Lower(s) == [i \in DOMAIN s |-> LowerChar(s[i])]

\* s < t for two str, as Python compares them: by code point, a proper
\* prefix first
RECURSIVE StrLess(_, _)
StrLess(s, t) ==
    IF t = <<>> THEN FALSE
    ELSE IF s = <<>> THEN TRUE
    ELSE IF s[1] # t[1] THEN Ord(s[1]) < Ord(t[1])
    ELSE StrLess(Tail(s), Tail(t))

\* str(n) for n >= 0
RECURSIVE Str(_)
Str(n) ==
    IF n < 10 THEN <<DigitChars[n + 1]>>
    ELSE Str(n \div 10) \o <<DigitChars[(n % 10) + 1]>>

\* int(s) for a str of decimal digits
RECURSIVE Int_(_)
Int_(s) ==
    IF s = <<>> THEN 0
    ELSE 10 * Int_(SubSeq(s, 1, Len(s) - 1)) + DigitValue(s[Len(s)])

\* the format specification 0>{width}d: zeros on the left up to width,
\* never a digit cut off
RECURSIVE ZeroPad(_, _)
ZeroPad(s, width) ==
    IF Len(s) >= width THEN s ELSE ZeroPad(<<"0">> \o s, width)

Fmt(n, width) == ZeroPad(Str(n), width)

EndsWith(s, t) ==
    /\ Len(s) >= Len(t)
    /\ SubSeq(s, Len(s) - Len(t) + 1, Len(s)) = t

\* the largest index of character c in s, 0 when there is none (rfind + 1)
RFind(s, c) ==
    IF \E i \in DOMAIN s : s[i] = c
    THEN CHOOSE i \in DOMAIN s : s[i] = c /\ \A j \in DOMAIN s : s[j] = c => j <= i
    ELSE 0

\* the indices of character c in s
Occurrences(s, c) == {i \in DOMAIN s : s[i] = c}

---------------------------------------------------------------------------
(* pathlib *)

\* PurePath.name: the final component
Name(path) == path[Len(path)]

\* PurePath.parent
Parent(path) == SubSeq(path, 1, Len(path) - 1)

\* PurePath.suffix: from the last dot of the name, unless the dot is the
\* first or the last character
Suffix(path) ==
    LET name == Name(path)
        i == RFind(name, ".")
    IN  IF 1 < i /\ i < Len(name) THEN SubSeq(name, i, Len(name)) ELSE <<>>

\* PurePath.stem
Stem(path) ==
    LET name == Name(path)
        i == RFind(name, ".")
    IN  IF 1 < i /\ i < Len(name) THEN SubSeq(name, 1, i - 1) ELSE name

\* p < q for two paths: their components are compared as a list of str
RECURSIVE PathLess(_, _)
PathLess(p, q) ==
    IF q = <<>> THEN FALSE
    ELSE IF p = <<>> THEN TRUE
    ELSE IF p[1] # q[1] THEN StrLess(p[1], q[1])
    ELSE PathLess(Tail(p), Tail(q))

\* sorted(paths) / list.sort() of a list of distinct paths
RECURSIVE SortPaths(_)
SortPaths(paths) ==
    IF paths = <<>> THEN <<>>
    ELSE LET rest == SortPaths(Tail(paths))
             x == Head(paths)
             n == Cardinality({i \in DOMAIN rest : PathLess(rest[i], x)})
         IN  SubSeq(rest, 1, n) \o <<x>> \o SubSeq(rest, n + 1, Len(rest))

\* list.sort(key=key): ascending in key[x], equal keys keep the order they
\* have in the list (the sort is stable)
RECURSIVE SortByKey(_, _)
SortByKey(list, key) ==
    IF list = <<>> THEN <<>>
    ELSE LET init == SortByKey(SubSeq(list, 1, Len(list) - 1), key)
             x == list[Len(list)]
             n == Cardinality({i \in DOMAIN init : key[init[i]] <= key[x]})
         IN  SubSeq(init, 1, n) \o <<x>> \o SubSeq(init, n + 1, Len(init))

\* the sequences that list each element of set S once
RECURSIVE Orderings(_)
Orderings(S) ==
    IF S = {} THEN {<<>>}
    ELSE UNION {{<<x>> \o o : o \in Orderings(S \ {x})} : x \in S}

---------------------------------------------------------------------------
(* datetime *)

\* datetime.fromtimestamp(t) as <<year, month, day, hour, minute, second>>;
\* t is a record [s |-> whole seconds since the epoch, ms |-> milliseconds]
DateTimeOf(t) ==
    LET days == t.s \div 86400
        rem == t.s % 86400
        z == days + 719468
        era == z \div 146097
        doe == z - era * 146097
        yoe == (doe - doe \div 1460 + doe \div 36524 - doe \div 146096) \div 365
        doy == doe - (365 * yoe + yoe \div 4 - yoe \div 100)
        mp == (5 * doy + 2) \div 153
        d == doy - (153 * mp + 2) \div 5 + 1
        m == IF mp < 10 THEN mp + 3 ELSE mp - 9
        y == yoe + era * 400 + (IF m <= 2 THEN 1 ELSE 0)
    IN  <<y, m, d, rem \div 3600, (rem % 3600) \div 60, rem % 60>>

\* strftime(EXIF_DATETIME_STR_FORMAT), "%Y:%m:%d %H:%M:%S"
ExifDateTime(t) ==
    LET dt == DateTimeOf(t)
    IN  Fmt(dt[1], 4) \o <<":">> \o Fmt(dt[2], 2) \o <<":">> \o Fmt(dt[3], 2)
        \o <<" ">> \o Fmt(dt[4], 2) \o <<":">> \o Fmt(dt[5], 2)
        \o <<":">> \o Fmt(dt[6], 2)

\* strftime("%Y%m%d")
DateDirNumber(t) ==
    LET dt == DateTimeOf(t)
    IN  Fmt(dt[1], 4) \o Fmt(dt[2], 2) \o Fmt(dt[3], 2)

---------------------------------------------------------------------------
(* Class constants of FrontierCleanerMS01. *)

\* re.match / fullmatch results: <<>> for None, <<groups>> for a match
None == <<>>

\* roll_padding, the default of the constructor and of --roll_padding
roll_padding == 4

\* ROLL_DIR_PATTERN = r"(?P<order_id>.{1,10})_(?P<roll_number>\d{6})" under
\* re.match: anchored at the start only, the greedy order_id takes the
\* longest prefix that lets the rest match
MS01_ROLL_DIR_PATTERN(name) ==
    LET Ls == {L \in 1..10 :
                  /\ Len(name) >= L + 7
                  /\ name[L + 1] = "_"
                  /\ AllDigits(SubSeq(name, L + 2, L + 7))}
        L == CHOOSE x \in Ls : \A y \in Ls : y <= x
    IN  IF Ls = {} THEN None
        ELSE <<[order_id |-> SubSeq(name, 1, L),
                roll_number |-> SubSeq(name, L + 2, L + 7)]>>

\* ROLL_DIR_GLOB_PATTERN = "*_" + "[0-9]" * 6
MS01_ROLL_DIR_GLOB_PATTERN(name) ==
    /\ Len(name) >= 7
    /\ name[Len(name) - 6] = "_"
    /\ AllDigits(SubSeq(name, Len(name) - 5, Len(name)))

\* the mutant of MS01_IMAGE_NAME_PATTERN that takes any nine characters for
\* the prefix
MS01_IMAGE_NAME_PATTERN_any_prefix(stem) ==
    IF Len(stem) >= 10
    THEN <<[frame_info |-> SubSeq(stem, 10, Len(stem))]>>
    ELSE None

\* IMAGE_NAME_PATTERN = r"R1-\d{5}-(?P<frame_info>.+)" under fullmatch
MS01_IMAGE_NAME_PATTERN(stem) ==
    IF /\ Len(stem) >= 10
       /\ SubSeq(stem, 1, 3) = <<"R", "1", "-">>
       /\ AllDigits(SubSeq(stem, 4, 8))
       /\ stem[9] = "-"
    THEN <<[frame_info |-> SubSeq(stem, 10, Len(stem))]>>
    ELSE None

\* FRAME_INFO_KEY = ("X", "00")
FrameInfoKeyStart == << <<"X">>, <<"0", "0">> >>

\* FRAME_INFO_KEY + tuple(map(str, range(41)))
FrameInfoKeyFrames == FrameInfoKeyStart \o [i \in 1..41 |-> Str(i - 1)]

\* the mutant of FrameInfoKeyInterlaced that puts each A token first
FrameInfoKeyInterlacedAFirst ==
    [i \in 1..(2 * Len(FrameInfoKeyFrames)) |->
        FrameInfoKeyFrames[(i + 1) \div 2]
            \o (IF i % 2 = 1 THEN <<"A">> ELSE <<>>)]

\* tuple(f"{left}{right}" for left in FRAME_INFO_KEY for right in ("", "A"))
FrameInfoKeyInterlaced ==
    [i \in 1..(2 * Len(FrameInfoKeyFrames)) |->
        FrameInfoKeyFrames[(i + 1) \div 2]
            \o (IF i % 2 = 1 THEN <<>> ELSE <<"A">>)]

\* FRAME_INFO_KEY + ("E",)
FrameInfoKeyTuple == FrameInfoKeyInterlaced \o << <<"E">> >>

\* {k: i for i, k in enumerate(FRAME_INFO_KEY)}: a later entry of a
\* repeated key would replace the earlier one
FRAME_INFO_KEY ==
    [k \in {FrameInfoKeyTuple[i] : i \in DOMAIN FrameInfoKeyTuple} |->
        (CHOOSE i \in DOMAIN FrameInfoKeyTuple :
            /\ FrameInfoKeyTuple[i] = k
            /\ \A j \in DOMAIN FrameInfoKeyTuple :
                   FrameInfoKeyTuple[j] = k => j <= i) - 1]

\* str.split("-"): the pieces between the separators
Split(s) ==
    LET seps == Occurrences(s, "-")
        cuts == [i \in 1..(Cardinality(seps) + 2) |->
                    IF i = 1 THEN 0
                    ELSE IF i = Cardinality(seps) + 2 THEN Len(s) + 1
                    ELSE CHOOSE p \in seps :
                             Cardinality({q \in seps : q < p}) = i - 2]
    IN  [i \in 1..(Cardinality(seps) + 1) |->
            SubSeq(s, cuts[i] + 1, cuts[i + 1] - 1)]

---------------------------------------------------------------------------
(* The file system below the export root. *)

\* the six globs of the image collection, in the order they are chained
ImageGlobs ==
    << <<".", "j", "p", "g">>, <<".", "t", "i", "f">>, <<".", "b", "m", "p">>,
       <<".", "J", "P", "G">>, <<".", "T", "I", "F">>, <<".", "B", "M", "P">> >>

\* Path.is_file()
IsFile(path) == \E f \in fs : f.path = path

\* the file at a path
FileAt(path) == CHOOSE f \in fs : f.path = path

\* path lies in directory dir or below it
IsBelow(path, dir) ==
    Len(path) > Len(dir) /\ SubSeq(path, 1, Len(dir)) = dir

\* dir.glob("**/*" + ext): the files at any depth below dir whose name ends
\* in ext, matched case-sensitively
RGlob(dir, ext) ==
    {f.path : f \in {g \in fs : IsBelow(g.path, dir) /\ EndsWith(Name(g.path), ext)}}

\* dir.glob("*" + ext): the files directly in dir whose name ends in ext
Glob(dir, ext) == {p \in RGlob(dir, ext) : Parent(p) = dir}

\* dir.glob("*"): the files and the directories directly in dir
GlobAll(dir) ==
    {f.path : f \in {g \in fs : Parent(g.path) = dir}}
        \cup {d \in dirs : d # <<>> /\ Parent(d) = dir}

\* sorted(...) of a set of paths
Sorted(paths) == SortPaths(CHOOSE o \in Orderings(paths) : TRUE)

\* PurePath.with_suffix
WithSuffix(path, suffix) == Parent(path) \o <<Stem(path) \o suffix>>

\* dir and the directories above it, as mkdir(parents=True) makes them
WithParents(dir) == {SubSeq(dir, 1, n) : n \in 0..Len(dir)}

\* whether Path.rmdir() of dir succeeds among the directories ds: dir is
\* one of them and holds no file and no directory
CanRmdir(dir, ds) ==
    /\ dir \in ds
    /\ \A f \in fs : Parent(f.path) # dir
    /\ \A d \in ds : d = <<>> \/ Parent(d) # dir

\* first_image_mtime = None, and the locals of a function that is not running
NoTime == [s |-> 0, ms |-> 0]

\* the time of the run, which a rewritten file gets as its modification
\* time: later than every scan
RunTime == [s |-> 1709370000, ms |-> 0]

\* one entry of the record of what the runs did to the file system and
\* asked of their collaborators: op is "gray", "set_tags", "rename", "rmdir",
\* "convert" or "unlink", or "killed" for a run that was stopped; run is
\* the number of the run
Effect(op, roll, id, src, dst, tags, ok) ==
    [op |-> op, roll |-> roll, id |-> id, src |-> src, dst |-> dst,
     tags |-> tags, ok |-> ok, run |-> run]

---------------------------------------------------------------------------
(* The export directories the runs start from. *)

Prefix46 == <<"R", "1", "-", "0", "0", "0", "4", "6", "-">>

ExtJPG == <<".", "J", "P", "G">>

ExtTIF == <<".", "T", "I", "F">>

DirJPG == <<"J", "P", "G">>

DirTIF == <<"T", "I", "F">>

\* the MS01 roll under test
MS01_RollDir == << <<"S", "m", "_", "0", "0", "0", "1", "2", "3">> >>

\* the roll that follows it
MS01_NextRollDir == << <<"S", "m", "_", "0", "0", "0", "1", "2", "4">> >>

\* a directory the roll glob finds whose order id has 11 characters
MS01_LongDir ==
    << <<"Z", "Y", "X", "W", "V", "U", "T", "S", "R", "Q", "P", "_",
         "0", "0", "0", "1", "2", "5">> >>

\* the files an MS01 export is drawn from: the path below the export root
\* and the modification time; the last but one lies in the roll that
\* follows, the last one in the roll directory itself
MS01_Candidates ==
    << [path |-> MS01_RollDir \o <<DirJPG, Prefix46 \o <<"0", "0", "0", "1">> \o ExtJPG>>,
        mtime |-> [s |-> 1709294400, ms |-> 250]],
       [path |-> MS01_RollDir \o <<DirJPG, Prefix46 \o <<"0", "0", "0", "2">> \o ExtJPG>>,
        mtime |-> [s |-> 1709251199, ms |-> 900]],
       [path |-> MS01_RollDir \o <<DirTIF, Prefix46 \o <<"0", "0", "0", "1">> \o ExtTIF>>,
        mtime |-> [s |-> 1709294405, ms |-> 0]],
       [path |-> MS01_RollDir \o <<DirTIF, Prefix46 \o <<"0", "0", "0", "1">> \o ExtJPG>>,
        mtime |-> [s |-> 1709294406, ms |-> 0]],
       [path |-> MS01_RollDir \o <<DirJPG, Prefix46 \o <<"0", "-", "0", "A">> \o ExtJPG>>,
        mtime |-> [s |-> 1709294400, ms |-> 250]],
       [path |-> MS01_RollDir \o <<DirJPG, Prefix46 \o <<"0", "-", "0">> \o ExtJPG>>,
        mtime |-> [s |-> 1709294405, ms |-> 0]],
       [path |-> MS01_RollDir \o <<DirJPG, Prefix46 \o <<"0", "A", "-", "0", "A">> \o ExtJPG>>,
        mtime |-> [s |-> 1709294406, ms |-> 0]],
       [path |-> MS01_RollDir \o <<DirJPG, Prefix46 \o <<"1", "0", "-", "1", "0", "A">> \o ExtJPG>>,
        mtime |-> [s |-> 1709294407, ms |-> 0]],
       [path |-> MS01_RollDir \o <<DirJPG, Prefix46 \o <<"4", "1", "-", "4", "1", "A">> \o ExtJPG>>,
        mtime |-> [s |-> 1709294408, ms |-> 0]],
       [path |-> MS01_RollDir \o <<DirJPG, <<"R", "0", "1", "2", "3", "F", "0", "0", "0", "1">> \o ExtJPG>>,
        mtime |-> [s |-> 1709294409, ms |-> 0]],
       [path |-> MS01_NextRollDir \o <<DirJPG, Prefix46 \o <<"0", "0", "0", "1">> \o ExtJPG>>,
        mtime |-> [s |-> 1709294500, ms |-> 0]],
       [path |-> MS01_RollDir \o <<Prefix46 \o <<"0", "0", "0", "3">> \o ExtJPG>>,
        mtime |-> [s |-> 1709294410, ms |-> 0]] >>

\* a file with no tags yet
File(path, mtime, id) ==
    [path |-> path, mtime |-> mtime, id |-> id, tags |-> <<>>, gray |-> FALSE]

\* the C4C5 roll under test, the roll that follows it, and a directory the
\* glob finds whose name the directory pattern does not match
C4C5_RollDir == << <<"S", "m", "i", "t", "h", "0", "0", "0", "1", "2", "3">> >>

C4C5_NextRollDir == << <<"S", "m", "i", "t", "h", "0", "0", "0", "1", "2", "4">> >>

C4C5_LongDir ==
    << <<"Z", "Y", "X", "W", "V", "U", "T", "S", "R", "Q", "P",
         "0", "0", "0", "1", "2", "5">> >>

\* the files a C4C5 export is drawn from; the last two lie in the other two
\* directories
C4C5_Candidates ==
    << [path |-> C4C5_RollDir \o << <<"0", "0", "0", "0", "0", "1", ".", "j", "p", "g">> >>,
        mtime |-> [s |-> 1709294400, ms |-> 250]],
       [path |-> C4C5_RollDir \o << <<"0", "0", "0", "0", "0", "2", ".", "j", "p", "g">> >>,
        mtime |-> [s |-> 1709251199, ms |-> 900]],
       [path |-> C4C5_RollDir \o << <<"0", "0", "0", "0", "0", "1", ".", "b", "m", "p">> >>,
        mtime |-> [s |-> 1709294405, ms |-> 0]],
       [path |-> C4C5_RollDir \o << <<"0", "0", "0", "0", "0", "3", ".", "t", "i", "f">> >>,
        mtime |-> [s |-> 1709294406, ms |-> 0]],
       [path |-> C4C5_RollDir \o << <<"I", "M", "G", "_", "0", "1", ".", "j", "p", "g">> >>,
        mtime |-> [s |-> 1709294407, ms |-> 0]],
       [path |-> C4C5_RollDir \o << <<"s", "u", "b">>,
                   <<"0", "0", "0", "0", "0", "9", ".", "j", "p", "g">> >>,
        mtime |-> [s |-> 1709294408, ms |-> 0]],
       [path |-> C4C5_RollDir \o << <<".", "_", "0", "0", "0", "0", "0", "1", ".", "j", "p", "g">> >>,
        mtime |-> [s |-> 1709294409, ms |-> 0]],
       [path |-> C4C5_NextRollDir
                     \o << <<"0", "0", "0", "0", "0", "1", ".", "j", "p", "g">> >>,
        mtime |-> [s |-> 1709294500, ms |-> 0]],
       [path |-> C4C5_LongDir
                     \o << <<"0", "0", "0", "0", "0", "1", ".", "j", "p", "g">> >>,
        mtime |-> [s |-> 1709294600, ms |-> 0]] >>

\* the FC roll under test
FC_RollDir ==
    << <<"0", "0", "0", "0", "0", "1", "0", "0", "0", "1", "2", "3">> >>

\* the roll that follows it
FC_NextRollDir ==
    << <<"0", "0", "0", "0", "0", "1", "0", "0", "0", "1", "2", "4">> >>

\* the directory entries an FC export is drawn from; the last but one lies
\* in the roll that follows and was saved in the second the first one was
FC_Candidates ==
    << [path |-> FC_RollDir \o << <<"0", "0", "0", "0", "0", "1", ".", "j", "p", "g">> >>,
        mtime |-> [s |-> 1709294400, ms |-> 250]],
       [path |-> FC_RollDir \o << <<"0", "0", "0", "0", "0", "2", ".", "j", "p", "g">> >>,
        mtime |-> [s |-> 1709251199, ms |-> 900]],
       [path |-> FC_RollDir \o << <<"0", "0", "0", "0", "0", "3", ".", "t", "i", "f">> >>,
        mtime |-> [s |-> 1709294405, ms |-> 0]],
       [path |-> FC_RollDir \o << <<".", "D", "S", "_", "S", "t", "o", "r", "e">> >>,
        mtime |-> [s |-> 1709294406, ms |-> 0]],
       [path |-> FC_RollDir \o << <<"0", "s", "u", "b">>,
                   <<"0", "0", "0", "0", "0", "9", ".", "j", "p", "g">> >>,
        mtime |-> [s |-> 1709294407, ms |-> 0]],
       [path |-> FC_RollDir \o << <<"I", "M", "G", "_", "0", "1", ".", "j", "p", "g">> >>,
        mtime |-> [s |-> 1709294408, ms |-> 0]],
       [path |-> FC_RollDir \o << <<"0", "0", "0", "0", "0", "1", ".", "t", "x", "t">> >>,
        mtime |-> [s |-> 1709294409, ms |-> 0]],
       [path |-> FC_NextRollDir \o << <<"0", "0", "0", "0", "0", "1", ".", "j", "p", "g">> >>,
        mtime |-> [s |-> 1709294400, ms |-> 700]],
       [path |-> FC_RollDir \o << <<"0", "0", "0", "0", "0", "2", ".", "b", "m", "p">> >>,
        mtime |-> [s |-> 1709294411, ms |-> 0]] >>

\* the files of an export for a set S of candidate numbers
PickFiles(candidates, S) ==
    {File(candidates[i].path, candidates[i].mtime, i) : i \in S}

\* the directories that hold a set of files
DirsOf(files) == UNION {WithParents(Parent(f.path)) : f \in files}

---------------------------------------------------------------------------
(* FrontierCleanerMS01 *)

\* find_all_rolls: the directories directly below the export path that the
\* roll glob matches, sorted
MS01_find_all_rolls ==
    Sorted({d \in dirs : Len(d) = 1 /\ MS01_ROLL_DIR_GLOB_PATTERN(Name(d))})

\* the lists itertools.chain can give for the globs from number k on: the
\* globs in their order, the files of one glob in any order
RECURSIVE ChainGlobs(_, _)
ChainGlobs(dir, k) ==
    IF k > Len(ImageGlobs) THEN {<<>>}
    ELSE {a \o b : a \in Orderings(RGlob(dir, ImageGlobs[k])),
                   b \in ChainGlobs(dir, k + 1)}

\* img_matches[img_path].group("frame_info")
MS01_frame_info(img_path) == MS01_IMAGE_NAME_PATTERN(Stem(img_path))[1].frame_info

\* the inner function key of fix_all_in_dir: the rank of the left component,
\* or the exception that the unpacking or the table lookup raises
MS01_key(img_path) ==
    LET parts == Split(MS01_frame_info(img_path))
    IN  IF Len(parts) # 2 THEN [err |-> "ValueError", rank |-> 0]
        ELSE IF parts[1] \notin DOMAIN FRAME_INFO_KEY
        THEN [err |-> "KeyError", rank |-> 0]
        ELSE [err |-> "", rank |-> FRAME_INFO_KEY[parts[1]]]

\* whether fix_all_in_dir takes the roll for a half-frame roll: it looks at
\* images[0] of the collected list
MS01_is_half_frame(list) ==
    Occurrences(MS01_frame_info(list[1]), "-") # {}

\* the mutant of MS01_sort_half_frame that sorts by the paths
MS01_sort_half_frame_by_path(list) == SortPaths(list)

\* images.sort(key=key) of a half-frame roll
MS01_sort_half_frame(list) ==
    SortByKey(list, [p \in {list[i] : i \in DOMAIN list} |-> MS01_key(p).rank])

\* the mutant of MS01_sort_standard that compares the file names only
MS01_sort_standard_by_name(list) ==
    SortByKey(list, [p \in {list[i] : i \in DOMAIN list} |->
        Cardinality({q \in {list[i] : i \in DOMAIN list} :
                        StrLess(Name(q), Name(p))})])

\* images.sort() of a standard roll
MS01_sort_standard(list) == SortPaths(list)

\* the sort of fix_all_in_dir: the sorted list, or the exception of the first
\* image whose key raises
MS01_sort(list) ==
    IF MS01_is_half_frame(list)
    THEN LET bad == {i \in DOMAIN list : MS01_key(list[i]).err # ""}
             first == CHOOSE i \in bad : \A j \in bad : i <= j
         IN  IF bad # {}
             THEN [err |-> MS01_key(list[first]).err, images |-> list]
             ELSE [err |-> "", images |-> MS01_sort_half_frame(list)]
    ELSE [err |-> "", images |-> MS01_sort_standard(list)]

\* the mutant of MS01_first_image_mtime that takes the oldest image of the roll
MS01_oldest_image_mtime(sorted) ==
    LET ts == {FileAt(sorted[i]).mtime : i \in DOMAIN sorted}
    IN  CHOOSE t \in ts : \A u \in ts : t.s <= u.s

\* first_image_mtime: the modification time of the first image of the sorted
\* list, read before the loop
MS01_first_image_mtime(sorted) == FileAt(sorted[1]).mtime

\* formatted_roll_number = f"{int(roll_number):0>{self.roll_padding}d}"
formatted_roll_number(roll_number) == Fmt(Int_(roll_number), roll_padding)

\* dest_dir of fix_all_in_dir
MS01_dest_dir(dir_match, sorted, mtime) ==
    IF reorg
    THEN <<dir_match.order_id, DateDirNumber(mtime),
           formatted_roll_number(dir_match.roll_number)>>
    ELSE Parent(sorted[1])

\* the mutant of MS01_subsec_time that counts from one
MS01_subsec_time_from_one(n) == Fmt(n + 1, 3)

\* subsec_time_original = f"{image_num:0>3d}"
MS01_subsec_time(n) == Fmt(n, 3)

\* tags_to_write of fix_all_in_dir: DateTimeOriginal, DateTimeDigitized,
\* SubSecTimeOriginal, SubSecTimeDigitized (Make and Model are constants)
MS01_tags_to_write(mtime, n) ==
    <<ExifDateTime(mtime), ExifDateTime(mtime),
      MS01_subsec_time(n), MS01_subsec_time(n)>>

\* new_filepath of fix_all_in_dir
MS01_new_filepath(dir_match, image_path) ==
    dest_dir \o << <<"R">> \o formatted_roll_number(dir_match.roll_number)
                   \o <<"F">> \o MS01_frame_info(image_path)
                   \o Suffix(image_path) >>

\* the locals of a cleaner's roll step, as they are outside of it
ResetLocals ==
    /\ images' = <<>>
    /\ imageNum' = 0
    /\ first_image_mtime' = NoTime
    /\ dest_dir' = <<>>
    /\ need_to_convert_bw' = FALSE
    /\ export_dirs' = {}
    /\ image_num' = 0

\* clean goes on with the next roll
NextRoll ==
    /\ rollIdx' = rollIdx + 1
    /\ pc' = "roll"
    /\ ResetLocals

\* clean, before its loop: find_all_rolls
MS01_clean ==
    /\ variant = "MS01" /\ pc = "clean"
    /\ rolls' = MS01_find_all_rolls
    /\ rollIdx' = 1
    /\ pc' = "roll"
    /\ UNCHANGED <<run, variant, entry, reorg, convert_bw, fs, fs0, dirs, images,
                   imageNum, first_image_mtime, dest_dir, need_to_convert_bw,
                   export_dirs, effects, failures, image_num>>

\* an exception that clean does not catch ends the run
Uncaught ==
    /\ pc' = "crashed"
    /\ UNCHANGED <<rollIdx, images, imageNum, first_image_mtime, dest_dir,
                   need_to_convert_bw, export_dirs, image_num>>

\* the mutant of CaughtValueError in which the except clause does not match
CaughtValueErrorMissed == Uncaught

\* clean's except ValueError: the roll is reported and skipped
CaughtValueError == NextRoll

\* fix_all_in_dir up to the validation gate: the directory name, the
\* collection of the images, the match of every stem
MS01_fix_all_in_dir ==
    /\ variant = "MS01" /\ pc = "roll" /\ rollIdx <= Len(rolls)
    /\ \E found \in ChainGlobs(rolls[rollIdx], 1) :
         IF MS01_ROLL_DIR_PATTERN(Name(rolls[rollIdx])) = None
         THEN CaughtValueError
         ELSE IF found = <<>>
         THEN NextRoll
         ELSE IF \E i \in DOMAIN found :
                    MS01_IMAGE_NAME_PATTERN(Stem(found[i])) = None
         THEN CaughtValueError
         ELSE /\ images' = found
              /\ pc' = "sort"
              /\ UNCHANGED <<rollIdx, imageNum, first_image_mtime, dest_dir,
                             need_to_convert_bw, export_dirs, image_num>>
    /\ UNCHANGED <<run, variant, entry, reorg, convert_bw, fs, fs0, dirs, rolls,
                   effects, failures>>

\* fix_all_in_dir from the validation gate to its loop: the roll type, the
\* sort, the first image's time, the prompt, the destination
MS01_sort_images ==
    /\ variant = "MS01" /\ pc = "sort"
    /\ \E sorted \in {MS01_sort(images)} :
         IF sorted.err = "ValueError" THEN CaughtValueError
         ELSE IF sorted.err # "" THEN Uncaught
         ELSE /\ images' = sorted.images
              /\ first_image_mtime' = MS01_first_image_mtime(sorted.images)
              /\ need_to_convert_bw' \in
                     (IF convert_bw THEN BOOLEAN ELSE {FALSE})
              /\ dest_dir' =
                     MS01_dest_dir(
                         MS01_ROLL_DIR_PATTERN(Name(rolls[rollIdx]))[1],
                         sorted.images,
                         MS01_first_image_mtime(sorted.images))
              /\ export_dirs' = {}
              /\ imageNum' = 0
              /\ pc' = "image"
              /\ UNCHANGED <<rollIdx, image_num>>
    /\ UNCHANGED <<run, variant, entry, reorg, convert_bw, fs, fs0, dirs, rolls,
                   effects, failures>>

\* the outcomes write_exif_tags can have: the tags are written, or ExifTool
\* raises or answers something else and the file stays as it is
WriteOutcomes == {TRUE} \cup (IF failures < MaxWriteFailures THEN {FALSE} ELSE {})

\* the mutant of MS01_write_exif_tags that lets the failure of the
\* MetadataWriter out of the method
MS01_write_exif_tags_raising(ok) == [raises |-> ~ok, written |-> ok]

\* write_exif_tags: True when ExifTool answers that it updated the file;
\* an ExifToolExecuteError and any other answer are printed and give False,
\* nothing is raised
MS01_write_exif_tags(ok) == [raises |-> FALSE, written |-> ok]

\* one pass of the loop of fix_all_in_dir: the grayscale conversion, the
\* tags, the rename
MS01_fix_image ==
    /\ variant = "MS01" /\ pc = "image" /\ imageNum < Len(images)
    /\ IF ~IsFile(images[imageNum + 1])
       THEN /\ imageNum' = imageNum + 1
            /\ UNCHANGED <<fs, dirs, export_dirs, effects, failures, pc>>
       ELSE \E ok \in WriteOutcomes :
            \E result \in {MS01_write_exif_tags(ok)} :
            \E image_path \in {images[imageNum + 1]} :
            \E f \in {FileAt(image_path)} :
            \E tags \in {MS01_tags_to_write(first_image_mtime, imageNum)} :
            \E new_filepath \in
                 {MS01_new_filepath(
                      MS01_ROLL_DIR_PATTERN(Name(rolls[rollIdx]))[1], image_path)} :
              LET g == IF need_to_convert_bw
                       THEN [f EXCEPT !.gray = TRUE, !.mtime = RunTime]
                       ELSE f
                  w == IF result.written
                       THEN [g EXCEPT !.tags = tags, !.mtime = RunTime]
                       ELSE g
                  asked == effects
                       \o (IF need_to_convert_bw
                           THEN <<Effect("gray", rollIdx, f.id, image_path,
                                         <<>>, <<>>, TRUE)>>
                           ELSE <<>>)
                       \o <<Effect("set_tags", rollIdx, f.id, image_path,
                                   <<>>, tags, result.written)>>
              IN  /\ export_dirs' = export_dirs \cup {Parent(image_path)}
                  /\ failures' = IF ok THEN failures ELSE failures + 1
                  /\ IF result.raises
                     THEN /\ fs' = (fs \ {f}) \cup {w}
                          /\ effects' = asked
                          /\ pc' = "crashed"
                          /\ UNCHANGED <<dirs, imageNum>>
                     ELSE /\ fs' = {x \in fs : x.path \notin {image_path, new_filepath}}
                                      \cup {[w EXCEPT !.path = new_filepath]}
                          /\ dirs' = dirs \cup WithParents(dest_dir)
                          /\ effects' = Append(asked,
                                 Effect("rename", rollIdx, f.id, image_path,
                                        new_filepath, <<>>, TRUE))
                          /\ imageNum' = imageNum + 1
                          /\ pc' = pc
    /\ UNCHANGED <<run, variant, entry, reorg, convert_bw, fs0, rolls, rollIdx,
                   images, first_image_mtime, dest_dir, need_to_convert_bw,
                   image_num>>

\* Path.rmdir() of the directories of list in turn, up to the first that
\* raises OSError: the directories left and the record of the calls
RECURSIVE RmdirAll(_, _, _)
RmdirAll(list, ds, roll) ==
    IF list = <<>> THEN [dirs |-> ds, log |-> <<>>]
    ELSE IF CanRmdir(Head(list), ds)
    THEN LET rest == RmdirAll(Tail(list), ds \ {Head(list)}, roll)
         IN  [dirs |-> rest.dirs,
              log |-> <<Effect("rmdir", roll, 0, Head(list), <<>>, <<>>, TRUE)>>
                          \o rest.log]
    ELSE [dirs |-> ds,
          log |-> <<Effect("rmdir", roll, 0, Head(list), <<>>, <<>>, FALSE)>>]

\* the end of fix_all_in_dir: with reorg the export directories, in the order
\* the set gives them, and then the roll directory are removed, inside one try
MS01_remove_dirs ==
    /\ variant = "MS01" /\ pc = "image" /\ imageNum = Len(images)
    /\ IF reorg
       THEN \E order \in Orderings(export_dirs) :
              LET r == RmdirAll(order \o <<rolls[rollIdx]>>, dirs, rollIdx)
              IN  dirs' = r.dirs /\ effects' = effects \o r.log
       ELSE UNCHANGED <<dirs, effects>>
    /\ NextRoll
    /\ UNCHANGED <<run, variant, entry, reorg, convert_bw, fs, fs0, rolls, failures>>

\* clean returns after the last roll
CleanReturns ==
    /\ pc = "roll" /\ rollIdx > Len(rolls)
    /\ pc' = "done"
    /\ UNCHANGED <<run, variant, entry, reorg, convert_bw, fs, fs0, dirs, rolls,
                   rollIdx, images, imageNum, first_image_mtime, dest_dir,
                   need_to_convert_bw, export_dirs, effects, failures, image_num>>

---------------------------------------------------------------------------
(* cleanup_c4c5.FrontierCleaner *)

\* frame_padding, the default of the constructor and of --frame_padding
C4C5_frame_padding == 2

\* IMAGE_DIR_PATTERN = r"(?P<order_id>.{1,10})(?P<roll_number>\d{6})" under
\* re.match: the greedy order_id takes the longest prefix of up to 10
\* characters that six digits follow
C4C5_IMAGE_DIR_PATTERN(name) ==
    LET Ls == {L \in 1..10 :
                  /\ Len(name) >= L + 6
                  /\ AllDigits(SubSeq(name, L + 1, L + 6))}
        L == CHOOSE x \in Ls : \A y \in Ls : y <= x
    IN  IF Ls = {} THEN None
        ELSE <<[order_id |-> SubSeq(name, 1, L),
                roll_number |-> SubSeq(name, L + 1, L + 6)]>>

\* IMAGE_DIR_GLOB_PATTERN = "*" + "[0-9]" * 6
C4C5_IMAGE_DIR_GLOB_PATTERN(name) ==
    /\ Len(name) >= 6
    /\ AllDigits(SubSeq(name, Len(name) - 5, Len(name)))

\* IMAGE_NAME_PATTERN = r"(?P<frame_number>\d{6})" under match: the stem
\* starts with six digits
C4C5_IMAGE_NAME_PATTERN(stem) ==
    IF Len(stem) >= 6 /\ AllDigits(SubSeq(stem, 1, 6))
    THEN <<[frame_number |-> SubSeq(stem, 1, 6)]>>
    ELSE None

\* find_all_image_dirs: the directories directly below the export path that
\* the directory glob matches, sorted
C4C5_find_all_image_dirs ==
    Sorted({d \in dirs : Len(d) = 1 /\ C4C5_IMAGE_DIR_GLOB_PATTERN(Name(d))})

\* the loop of convert_bmps_to_tifs over a sorted list: every file whose
\* suffix is .bmp in any case is saved as a .tif file and unlinked; the
\* files left and the record of the calls
RECURSIVE C4C5_convert_all(_, _, _)
C4C5_convert_all(list, files, roll) ==
    IF list = <<>> THEN [fs |-> files, log |-> <<>>]
    ELSE LET image_path == Head(list)
             bmps == {f \in files : f.path = image_path}
         IN  IF Lower(Suffix(image_path)) # <<".", "b", "m", "p">> \/ bmps = {}
             THEN C4C5_convert_all(Tail(list), files, roll)
             ELSE LET f == CHOOSE x \in bmps : TRUE
                      tif_filepath == WithSuffix(image_path, <<".", "t", "i", "f">>)
                      tif == [File(tif_filepath, RunTime, f.id) EXCEPT !.gray = f.gray]
                      rest == C4C5_convert_all(
                                  Tail(list),
                                  {x \in files : x.path \notin {image_path, tif_filepath}}
                                      \cup {tif},
                                  roll)
                  IN  [fs |-> rest.fs,
                       log |-> <<Effect("convert", roll, f.id, image_path,
                                        tif_filepath, <<>>, TRUE),
                                 Effect("unlink", roll, f.id, image_path,
                                        <<>>, <<>>, TRUE)>> \o rest.log]

\* the images_glob of fix_timestamps: the six recursive globs, sorted
C4C5_timestamps_glob(dir) ==
    Sorted(UNION {RGlob(dir, ImageGlobs[k]) : k \in DOMAIN ImageGlobs})

\* the images_glob of rename_images: *.jpg, *.bmp, *.JPG and *.BMP directly
\* in the directory, sorted
C4C5_rename_glob(dir) ==
    Sorted(UNION {Glob(dir, ImageGlobs[k]) : k \in {1, 3, 4, 6}})

\* subsec_time_original = f"{image_num - 1:0>3d}"
C4C5_subsec_time(n) == Fmt(n - 1, 3)

\* tags_to_write of fix_timestamps
C4C5_tags_to_write(mtime, n) ==
    <<ExifDateTime(mtime), ExifDateTime(mtime),
      C4C5_subsec_time(n), C4C5_subsec_time(n)>>

\* dest_dir of rename_images
C4C5_dest_dir(dir_match, first_image_path, mtime) ==
    IF reorg
    THEN <<dir_match.order_id, DateDirNumber(mtime),
           formatted_roll_number(dir_match.roll_number)>>
    ELSE Parent(first_image_path)

\* new_filepath of rename_images
C4C5_new_filepath(dir_match, image_number, image_path) ==
    dest_dir \o << <<"R">> \o formatted_roll_number(dir_match.roll_number)
                   \o <<"F">> \o Fmt(image_number + 1, C4C5_frame_padding)
                   \o Suffix(image_path) >>

\* clean, before its loop: find_all_image_dirs
C4C5_clean ==
    /\ variant = "C4C5" /\ pc = "clean"
    /\ rolls' = C4C5_find_all_image_dirs
    /\ rollIdx' = 1
    /\ pc' = "roll"
    /\ UNCHANGED <<run, variant, entry, reorg, convert_bw, fs, fs0, dirs, images,
                   imageNum, first_image_mtime, dest_dir, need_to_convert_bw,
                   export_dirs, effects, failures, image_num>>

\* convert_bmps_to_tifs
C4C5_convert_bmps_to_tifs ==
    /\ variant = "C4C5" /\ pc = "roll" /\ rollIdx <= Len(rolls)
    /\ \E r \in {C4C5_convert_all(Sorted(GlobAll(rolls[rollIdx])), fs, rollIdx)} :
         /\ fs' = r.fs
         /\ effects' = effects \o r.log
    /\ pc' = "fix_timestamps"
    /\ UNCHANGED <<run, variant, entry, reorg, convert_bw, fs0, dirs, rolls, rollIdx,
                   images, imageNum, first_image_mtime, dest_dir,
                   need_to_convert_bw, export_dirs, failures, image_num>>

\* fix_timestamps up to its loop
C4C5_fix_timestamps ==
    /\ variant = "C4C5" /\ pc = "fix_timestamps"
    /\ images' = C4C5_timestamps_glob(rolls[rollIdx])
    /\ imageNum' = 0
    /\ image_num' = 0
    /\ first_image_mtime' = NoTime
    /\ pc' = "timestamp"
    /\ UNCHANGED <<run, variant, entry, reorg, convert_bw, fs, fs0, dirs, rolls,
                   rollIdx, dest_dir, need_to_convert_bw, export_dirs, effects,
                   failures>>

\* one pass of the loop of fix_timestamps
C4C5_fix_timestamp ==
    /\ variant = "C4C5" /\ pc = "timestamp" /\ imageNum < Len(images)
    /\ \E image_path \in {images[imageNum + 1]} :
         IF Head(Stem(image_path)) = "." \/ ~IsFile(image_path)
         THEN /\ imageNum' = imageNum + 1
              /\ UNCHANGED <<fs, effects, failures, rollIdx, pc, images,
                             first_image_mtime, dest_dir, need_to_convert_bw,
                             export_dirs, image_num>>
         ELSE IF C4C5_IMAGE_NAME_PATTERN(Stem(image_path)) = None
         THEN CaughtValueError /\ UNCHANGED <<fs, effects, failures>>
         ELSE \E ok \in WriteOutcomes :
              \E f \in {FileAt(image_path)} :
              \E mtime \in {IF first_image_mtime = NoTime
                            THEN f.mtime ELSE first_image_mtime} :
              \E tags \in {C4C5_tags_to_write(mtime, image_num + 1)} :
                /\ image_num' = image_num + 1
                /\ first_image_mtime' = mtime
                /\ fs' = IF ok
                         THEN (fs \ {f}) \cup
                                  {[f EXCEPT !.tags = tags, !.mtime = RunTime]}
                         ELSE fs
                /\ failures' = IF ok THEN failures ELSE failures + 1
                /\ effects' = Append(effects,
                       Effect("set_tags", rollIdx, f.id, image_path, <<>>, tags, ok))
                /\ imageNum' = imageNum + 1
                /\ UNCHANGED <<rollIdx, pc, images, dest_dir,
                               need_to_convert_bw, export_dirs>>
    /\ UNCHANGED <<run, variant, entry, reorg, convert_bw, fs0, dirs, rolls>>

\* rename_images up to its loop: the collection, the directory name, the
\* destination
C4C5_rename_images ==
    /\ variant = "C4C5" /\ pc = "timestamp" /\ imageNum = Len(images)
    /\ \E images_glob \in {C4C5_rename_glob(rolls[rollIdx])} :
       \E dir_match \in {C4C5_IMAGE_DIR_PATTERN(Name(rolls[rollIdx]))} :
         IF images_glob = <<>> THEN NextRoll
         ELSE IF dir_match = None THEN CaughtValueError
         ELSE /\ images' = images_glob
              /\ imageNum' = 0
              /\ image_num' = 0
              /\ first_image_mtime' =
                     IF reorg THEN FileAt(images_glob[1]).mtime ELSE NoTime
              /\ dest_dir' = C4C5_dest_dir(dir_match[1], images_glob[1],
                                           FileAt(images_glob[1]).mtime)
              /\ pc' = "rename"
              /\ UNCHANGED <<rollIdx, need_to_convert_bw, export_dirs>>
    /\ UNCHANGED <<run, variant, entry, reorg, convert_bw, fs, fs0, dirs, rolls,
                   effects, failures>>

\* one pass of the loop of rename_images
C4C5_rename_image ==
    /\ variant = "C4C5" /\ pc = "rename" /\ imageNum < Len(images)
    /\ \E image_path \in {images[imageNum + 1]} :
         IF ~IsFile(image_path)
         THEN /\ imageNum' = imageNum + 1
              /\ UNCHANGED <<fs, dirs, effects, rollIdx, pc, images,
                             first_image_mtime, dest_dir, need_to_convert_bw,
                             export_dirs, image_num>>
         ELSE IF C4C5_IMAGE_NAME_PATTERN(Stem(image_path)) = None
         THEN CaughtValueError /\ UNCHANGED <<fs, dirs, effects>>
         ELSE \E f \in {FileAt(image_path)} :
              \E new_filepath \in
                   {C4C5_new_filepath(
                        C4C5_IMAGE_DIR_PATTERN(Name(rolls[rollIdx]))[1],
                        imageNum, image_path)} :
                /\ fs' = {x \in fs : x.path \notin {image_path, new_filepath}}
                            \cup {[f EXCEPT !.path = new_filepath]}
                /\ dirs' = dirs \cup WithParents(dest_dir)
                /\ effects' = Append(effects,
                       Effect("rename", rollIdx, f.id, image_path, new_filepath,
                              <<>>, TRUE))
                /\ imageNum' = imageNum + 1
                /\ UNCHANGED <<rollIdx, pc, images, first_image_mtime, dest_dir,
                               need_to_convert_bw, export_dirs, image_num>>
    /\ UNCHANGED <<run, variant, entry, reorg, convert_bw, fs0, rolls, failures>>

\* the end of rename_images: with reorg the roll directory is removed if it
\* is empty
C4C5_remove_dir ==
    /\ variant = "C4C5" /\ pc = "rename" /\ imageNum = Len(images)
    /\ IF reorg
       THEN LET r == RmdirAll(<<rolls[rollIdx]>>, dirs, rollIdx)
            IN  dirs' = r.dirs /\ effects' = effects \o r.log
       ELSE UNCHANGED <<dirs, effects>>
    /\ NextRoll
    /\ UNCHANGED <<run, variant, entry, reorg, convert_bw, fs, fs0, rolls, failures>>

---------------------------------------------------------------------------
(* frontier_cleanup.FrontierCleaner *)

\* frame_padding, the default of the constructor
FC_frame_padding == 4

\* IMAGE_DIR_PATTERN = r"(?P<order_number>\d{6})(?P<roll_number>\d{6})"
\* under re.match: the name starts with twelve digits
FC_IMAGE_DIR_PATTERN(name) ==
    IF Len(name) >= 12 /\ AllDigits(SubSeq(name, 1, 12))
    THEN <<[order_number |-> SubSeq(name, 1, 6),
            roll_number |-> SubSeq(name, 7, 12)]>>
    ELSE None

\* IMAGE_NAME_PATTERN = r"(?P<frame_number>\d{6})" under match
FC_IMAGE_NAME_PATTERN(stem) ==
    IF Len(stem) >= 6 /\ AllDigits(SubSeq(stem, 1, 6))
    THEN <<[frame_number |-> SubSeq(stem, 1, 6)]>>
    ELSE None

\* Path.stat().st_mtime: of a file, or of a directory of the export
StatMTime(path) ==
    IF IsFile(path) THEN FileAt(path).mtime ELSE [s |-> 1709294410, ms |-> 0]

\* dest_dir of rename_images; parent_dir is the export root
FC_dest_dir(match, first_image_path, mtime) ==
    IF reorg
    THEN Parent(Parent(first_image_path))
             \o <<match.order_number, DateDirNumber(mtime),
                  formatted_roll_number(match.roll_number)>>
    ELSE Parent(first_image_path)

\* new_filepath of rename_images, image_number being the index enumerate
\* gives the entry
FC_new_filepath(match, image_number, image_path) ==
    dest_dir \o << <<"R">> \o formatted_roll_number(match.roll_number)
                   \o <<"F">> \o Fmt(image_number + 1, FC_frame_padding)
                   \o Suffix(image_path) >>

\* the method returns: to the loop of clean, or to the caller of the method
Returns ==
    IF entry = "clean" THEN NextRoll
    ELSE pc' = "done" /\ rollIdx' = rollIdx /\ ResetLocals

\* the method raises ValueError: into clean's except clause, or to the
\* caller of the method
RaisesValueError == IF entry = "clean" THEN CaughtValueError ELSE Uncaught

\* rename_images up to its loop
FC_rename_images ==
    /\ variant = "FC" /\ pc = "rename_images"
    /\ \E images_glob \in {Sorted(GlobAll(rolls[rollIdx]))} :
       \E match \in {FC_IMAGE_DIR_PATTERN(Name(rolls[rollIdx]))} :
         IF images_glob = <<>> THEN Returns
         ELSE IF match = None THEN Uncaught
         ELSE /\ images' = images_glob
              /\ imageNum' = 0
              /\ first_image_mtime' =
                     IF reorg THEN StatMTime(images_glob[1]) ELSE NoTime
              /\ dest_dir' = FC_dest_dir(match[1], images_glob[1],
                                         StatMTime(images_glob[1]))
              /\ pc' = "rename"
              /\ UNCHANGED <<rollIdx, need_to_convert_bw, export_dirs, image_num>>
    /\ UNCHANGED <<run, variant, entry, reorg, convert_bw, fs, fs0, dirs, rolls,
                   effects, failures>>

\* one pass of the loop of rename_images
FC_rename_image ==
    /\ variant = "FC" /\ pc = "rename" /\ imageNum < Len(images)
    /\ \E image_path \in {images[imageNum + 1]} :
         IF \/ Lower(Suffix(image_path)) \notin
                  {<<".", "j", "p", "g">>, <<".", "t", "i", "f">>,
                   <<".", "b", "m", "p">>}
            \/ ~IsFile(image_path)
         THEN /\ imageNum' = imageNum + 1
              /\ UNCHANGED <<fs, dirs, effects, rollIdx, pc, images,
                             first_image_mtime, dest_dir, need_to_convert_bw,
                             export_dirs, image_num>>
         ELSE IF FC_IMAGE_NAME_PATTERN(Stem(image_path)) = None
         THEN RaisesValueError /\ UNCHANGED <<fs, dirs, effects>>
         ELSE \E f \in {FileAt(image_path)} :
              \E new_filepath \in
                   {FC_new_filepath(
                        FC_IMAGE_DIR_PATTERN(Name(rolls[rollIdx]))[1],
                        imageNum, image_path)} :
                /\ fs' = {x \in fs : x.path \notin {image_path, new_filepath}}
                            \cup {[f EXCEPT !.path = new_filepath]}
                /\ dirs' = dirs \cup WithParents(dest_dir)
                /\ effects' = Append(effects,
                       Effect("rename", rollIdx, f.id, image_path, new_filepath,
                              <<>>, TRUE))
                /\ imageNum' = imageNum + 1
                /\ UNCHANGED <<rollIdx, pc, images, first_image_mtime, dest_dir,
                               need_to_convert_bw, export_dirs, image_num>>
    /\ UNCHANGED <<run, variant, entry, reorg, convert_bw, fs0, rolls, failures>>

\* the end of rename_images: with reorg the directory of the first entry is
\* removed if it is empty
FC_remove_dir ==
    /\ variant = "FC" /\ pc = "rename" /\ imageNum = Len(images)
    /\ IF reorg
       THEN LET r == RmdirAll(<<Parent(images[1])>>, dirs, rollIdx)
            IN  dirs' = r.dirs /\ effects' = effects \o r.log
       ELSE UNCHANGED <<dirs, effects>>
    /\ Returns
    /\ UNCHANGED <<run, variant, entry, reorg, convert_bw, fs, fs0, rolls, failures>>

\* IMAGE_DIR_GLOB_PATTERN = "[0-9]" * (6 + 6)
FC_IMAGE_DIR_GLOB_PATTERN(name) == Len(name) = 12 /\ AllDigits(name)

\* find_all_image_dirs: the entries at any depth below the search path that
\* the directory glob matches, sorted; the search path itself is not named
\* like a roll
FC_find_all_image_dirs ==
    Sorted({d \in dirs : d # <<>> /\ FC_IMAGE_DIR_GLOB_PATTERN(Name(d))})

\* base_timestamp + timedelta(seconds=index), base_timestamp being
\* datetime.now() at the start of clean
FC_base_timestamp(index) == [s |-> RunTime.s + index, ms |-> 0]

\* tags_to_write of fix_timestamps: the times are those of first_image_mtime
FC_tags_to_write(mtime, n) ==
    <<ExifDateTime(mtime), ExifDateTime(mtime), Fmt(n - 1, 3), Fmt(n - 1, 3)>>

\* clean, before its loop: datetime.now() and find_all_image_dirs
FC_clean ==
    /\ variant = "FC" /\ pc = "clean"
    /\ rolls' = FC_find_all_image_dirs
    /\ rollIdx' = 1
    /\ pc' = "roll"
    /\ UNCHANGED <<run, variant, entry, reorg, convert_bw, fs, fs0, dirs, images,
                   imageNum, first_image_mtime, dest_dir, need_to_convert_bw,
                   export_dirs, effects, failures, image_num>>

\* fix_timestamps up to its loop; the base_timestamp it is called with is
\* not read anywhere in the method
FC_fix_timestamps ==
    /\ variant = "FC" /\ pc = "roll" /\ rollIdx <= Len(rolls)
    /\ \E base_timestamp \in {FC_base_timestamp(rollIdx - 1)} :
         /\ images' = Sorted(GlobAll(rolls[rollIdx]))
         /\ imageNum' = 0
         /\ image_num' = 0
         /\ first_image_mtime' = NoTime
         /\ pc' = "timestamp"
    /\ UNCHANGED <<run, variant, entry, reorg, convert_bw, fs, fs0, dirs, rolls,
                   rollIdx, dest_dir, need_to_convert_bw, export_dirs, effects,
                   failures>>

\* one pass of the loop of fix_timestamps
FC_fix_timestamp ==
    /\ variant = "FC" /\ pc = "timestamp" /\ imageNum < Len(images)
    /\ \E image_path \in {images[imageNum + 1]} :
         IF \/ Lower(Suffix(image_path)) \notin
                  {<<".", "j", "p", "g">>, <<".", "t", "i", "f">>}
            \/ ~IsFile(image_path)
         THEN /\ imageNum' = imageNum + 1
              /\ UNCHANGED <<fs, effects, failures, rollIdx, pc, images,
                             first_image_mtime, dest_dir, need_to_convert_bw,
                             export_dirs, image_num>>
         ELSE IF FC_IMAGE_NAME_PATTERN(Stem(image_path)) = None
         THEN CaughtValueError /\ UNCHANGED <<fs, effects, failures>>
         ELSE \E ok \in WriteOutcomes :
              \E f \in {FileAt(image_path)} :
              \E mtime \in {IF first_image_mtime = NoTime
                            THEN f.mtime ELSE first_image_mtime} :
              \E tags \in {FC_tags_to_write(mtime, image_num + 1)} :
                /\ image_num' = image_num + 1
                /\ first_image_mtime' = mtime
                /\ fs' = IF ok
                         THEN (fs \ {f}) \cup
                                  {[f EXCEPT !.tags = tags, !.mtime = RunTime]}
                         ELSE fs
                /\ failures' = IF ok THEN failures ELSE failures + 1
                /\ effects' = Append(effects,
                       Effect("set_tags", rollIdx, f.id, image_path, <<>>, tags, ok))
                /\ imageNum' = imageNum + 1
                /\ UNCHANGED <<rollIdx, pc, images, dest_dir,
                               need_to_convert_bw, export_dirs>>
    /\ UNCHANGED <<run, variant, entry, reorg, convert_bw, fs0, dirs, rolls>>

\* self.convert_bmps_to_tifs(image_dir): the method is defined without
\* self, so the call passes two arguments to a function of one and raises
\* TypeError, which clean does not catch
FC_convert_bmps_to_tifs ==
    /\ variant = "FC" /\ pc = "timestamp" /\ imageNum = Len(images)
    /\ Uncaught
    /\ UNCHANGED <<run, variant, entry, reorg, convert_bw, fs, fs0, dirs, rolls,
                   effects, failures>>

---------------------------------------------------------------------------
(* The state after construction, and the runs. *)

InitLocals ==
    /\ fs0 = fs
    /\ images = <<>>
    /\ imageNum = 0
    /\ first_image_mtime = NoTime
    /\ dest_dir = <<>>
    /\ need_to_convert_bw = FALSE
    /\ export_dirs = {}
    /\ effects = <<>>
    /\ failures = 0
    /\ image_num = 0
    /\ run = 1

\* a new cleaner whose clean is about to run
InitClean ==
    /\ entry = "clean"
    /\ pc = "clean"
    /\ rolls = <<>>
    /\ rollIdx = 0

InitMS01 ==
    /\ variant = "MS01"
    /\ reorg \in BOOLEAN
    /\ convert_bw \in BOOLEAN
    /\ \E S \in SUBSET DOMAIN MS01_Candidates :
         /\ Cardinality(S) <= MaxImages
         /\ fs = PickFiles(MS01_Candidates, S)
    /\ dirs = DirsOf(fs) \cup {MS01_RollDir, MS01_NextRollDir, MS01_LongDir}
    /\ InitClean
    /\ InitLocals

InitC4C5 ==
    /\ variant = "C4C5"
    /\ reorg \in BOOLEAN
    /\ convert_bw = FALSE
    /\ \E S \in SUBSET DOMAIN C4C5_Candidates :
         /\ Cardinality(S) <= MaxImages
         /\ fs = PickFiles(C4C5_Candidates, S)
    /\ dirs = DirsOf(fs) \cup {C4C5_RollDir, C4C5_NextRollDir, C4C5_LongDir}
    /\ InitClean
    /\ InitLocals

Init == InitMS01

Next ==
    \/ MS01_clean
    \/ MS01_fix_all_in_dir
    \/ MS01_sort_images
    \/ MS01_fix_image
    \/ MS01_remove_dirs
    \/ CleanReturns

\* the runs of FrontierCleanerMS01.clean
Spec == Init /\ [][Next]_vars

NextC4C5 ==
    \/ C4C5_clean
    \/ C4C5_convert_bmps_to_tifs
    \/ C4C5_fix_timestamps
    \/ C4C5_fix_timestamp
    \/ C4C5_rename_images
    \/ C4C5_rename_image
    \/ C4C5_remove_dir
    \/ CleanReturns

\* the runs of cleanup_c4c5.FrontierCleaner.clean
SpecC4C5 == InitC4C5 /\ [][NextC4C5]_vars

\* a new cleaner whose rename_images is about to run on the roll under test
InitFC ==
    /\ variant = "FC"
    /\ reorg \in BOOLEAN
    /\ convert_bw = FALSE
    /\ \E S \in SUBSET DOMAIN FC_Candidates :
         /\ Cardinality(S) <= MaxImages
         /\ fs = PickFiles(FC_Candidates, S)
    /\ dirs = DirsOf(fs) \cup {FC_RollDir}
    /\ entry = "rename_images"
    /\ pc = "rename_images"
    /\ rolls = <<FC_RollDir>>
    /\ rollIdx = 1
    /\ InitLocals

NextFC ==
    \/ FC_rename_images
    \/ FC_rename_image
    \/ FC_remove_dir

\* the runs of frontier_cleanup.FrontierCleaner.rename_images
SpecFC == InitFC /\ [][NextFC]_vars

\* a new frontier_cleanup cleaner whose clean is about to run
InitFCClean ==
    /\ variant = "FC"
    /\ reorg \in BOOLEAN
    /\ convert_bw = FALSE
    /\ \E S \in SUBSET DOMAIN FC_Candidates :
         /\ Cardinality(S) <= MaxImages
         /\ fs = PickFiles(FC_Candidates, S)
    /\ dirs = DirsOf(fs) \cup {<<>>}
    /\ InitClean
    /\ InitLocals

NextFCClean ==
    \/ FC_clean
    \/ FC_fix_timestamps
    \/ FC_fix_timestamp
    \/ FC_convert_bmps_to_tifs
    \/ CleanReturns

\* the runs of frontier_cleanup.FrontierCleaner.clean
SpecFCClean == InitFCClean /\ [][NextFCClean]_vars

InitAll == InitMS01 \/ InitC4C5 \/ InitFC

NextAll == Next \/ NextC4C5 \/ NextFC

\* the runs of the three cleaners
SpecAll == InitAll /\ [][NextAll]_vars

---------------------------------------------------------------------------
(* Runs that are stopped, and later runs on the same export. *)

\* the process is stopped between two passes of a loop that renames, after
\* some of the passes and before the last
Killed ==
    /\ pc \in {"image", "rename"}
    /\ 0 < imageNum /\ imageNum < Len(images)
    /\ effects' = Append(effects,
           Effect("killed", rollIdx, 0, <<>>, <<>>, <<>>, TRUE))
    /\ pc' = "killed"
    /\ UNCHANGED <<run, variant, entry, reorg, convert_bw, fs, fs0, dirs, rolls,
                   rollIdx, images, imageNum, first_image_mtime, dest_dir,
                   need_to_convert_bw, export_dirs, failures, image_num>>

\* the cleaner is started again on the export as the run before left it
Rerun ==
    /\ pc \in {"done", "killed", "crashed"}
    /\ run < MaxRuns
    /\ run' = run + 1
    /\ IF entry = "clean"
       THEN pc' = "clean" /\ rolls' = <<>> /\ rollIdx' = 0
       ELSE pc' = "rename_images" /\ UNCHANGED <<rolls, rollIdx>>
    /\ ResetLocals
    /\ UNCHANGED <<variant, entry, reorg, convert_bw, fs, fs0, dirs, effects,
                   failures>>

\* the candidates of each export that lie in the roll under test and that
\* the cleaners take: the first four of each list
Accepted == 1..4

\* a new cleaner that works in place, on an export of files its validation
\* accepts
InitRerun ==
    /\ InitAll
    /\ ~reorg
    /\ ~convert_bw
    /\ \A f \in fs : f.id \in Accepted

NextRerun == NextAll \/ Killed \/ Rerun

\* the runs of the three cleaners in place, stopped or not, and the runs
\* after them
SpecRerun == InitRerun /\ [][NextRerun]_vars

---------------------------------------------------------------------------
(* The tag write for one image of a long roll. *)

\* the loop of a roll is about to write the tags of the image at some
\* position; the images before it are not followed
InitLongRoll ==
    /\ variant \in {"MS01", "C4C5"}
    /\ reorg = FALSE
    /\ convert_bw = FALSE
    /\ fs = {} /\ dirs = {<<>>}
    /\ entry = "clean" /\ rolls = <<>> /\ rollIdx = 1
    /\ pc = "long roll"
    /\ fs0 = fs
    /\ images = <<>>
    /\ imageNum \in 0..MaxPosition
    /\ first_image_mtime = NoTime
    /\ dest_dir = <<>>
    /\ need_to_convert_bw = FALSE
    /\ export_dirs = {}
    /\ effects = <<>>
    /\ failures = 0
    /\ image_num = 0
    /\ run = 1

\* the tags_to_write of the pass for the image at position imageNum: in
\* fix_all_in_dir image_num is the position, in fix_timestamps it has been
\* bumped to the position plus one
LongRollWrite ==
    /\ pc = "long roll"
    /\ \E mtime \in {MS01_Candidates[1].mtime, MS01_Candidates[2].mtime} :
         /\ first_image_mtime' = mtime
         /\ effects' = <<Effect("set_tags", rollIdx, 0, <<>>, <<>>,
                (IF variant = "MS01"
                 THEN MS01_tags_to_write(mtime, imageNum)
                 ELSE C4C5_tags_to_write(mtime, imageNum + 1)), TRUE)>>
    /\ pc' = "long roll written"
    /\ UNCHANGED <<run, variant, entry, reorg, convert_bw, fs, fs0, dirs, rolls,
                   rollIdx, images, imageNum, dest_dir, need_to_convert_bw,
                   export_dirs, failures, image_num>>

\* the tag writes of the rolls of up to MaxPosition + 1 images
SpecLongRoll == InitLongRoll /\ [][LongRollWrite]_vars

---------------------------------------------------------------------------
(* What the record of a run says about a roll. *)

\* the file as the run found it
OriginalOf(id) == CHOOSE f \in fs0 : f.id = id

\* the files roll r held when the run started
OriginalFiles(r) == {f \in fs0 : IsBelow(f.path, rolls[r])}

\* the calls of one kind the run has made for roll r, in their order
EffectsOf(r, op) == SelectSeq(effects, LAMBDA e : e.roll = r /\ e.op = op)

\* nothing has been done for roll r, and its files are as they were
Untouched(r) ==
    /\ \A i \in DOMAIN effects : effects[i].roll # r
    /\ {f \in fs : IsBelow(f.path, rolls[r])} = OriginalFiles(r)

\* the left component of a half-frame name
LeftOf(img_path) == Split(MS01_frame_info(img_path))[1]

\* the base tokens of the frame table in their order: X, 00, 0 .. 40
BaseTokens == << <<"X">>, <<"0", "0">> >> \o [i \in 1..41 |-> Str(i - 1)]

---------------------------------------------------------------------------
(* Properties of FrontierCleanerMS01. *)

\* the table has 87 tokens with the ranks 0 .. 86; the base token number i
\* has rank 2(i-1), the same token with A the rank after it, and E the last
FrameInfoKeyOrdered ==
    /\ Cardinality(DOMAIN FRAME_INFO_KEY) = 87
    /\ {FRAME_INFO_KEY[k] : k \in DOMAIN FRAME_INFO_KEY} = 0..86
    /\ \A i \in DOMAIN BaseTokens :
         /\ FRAME_INFO_KEY[BaseTokens[i]] = 2 * (i - 1)
         /\ FRAME_INFO_KEY[BaseTokens[i] \o <<"A">>] = 2 * (i - 1) + 1
    /\ FRAME_INFO_KEY[<<"E">>] = 86
    /\ \A k \in DOMAIN FRAME_INFO_KEY : FRAME_INFO_KEY[k] <= FRAME_INFO_KEY[<<"E">>]

\* C1: FRAME_INFO_KEY ranks exactly the 87 tokens X, XA, 00, 00A, 0, 0A, ...,
\* 40, 40A, E, zero-based and injectively and in that order: the base token
\* number i has rank 2(i-1), the same token with A the rank after it, and E
\* the last rank, 86.
C1_FrameInfoKeyOrder ==
    /\ variant \in {"MS01", "C4C5", "FC"}
    /\ FrameInfoKeyOrdered

\* a half-frame roll has been sorted by the table: an A token stands between
\* its base token and a later base token
C1_Witness ==
    /\ variant = "MS01" /\ pc = "image" /\ Len(images) = 3
    /\ LeftOf(images[1]) = <<"0">>
    /\ LeftOf(images[2]) = <<"0", "A">>
    /\ LeftOf(images[3]) = <<"1", "0">>

\* C2: the sort of a half-frame roll whose left components are all in the
\* table keeps the images, puts them in non-decreasing rank of the left
\* component, and keeps images of one left component in the order they were
\* discovered in; the order is fixed by rank and discovery order alone
C2_HalfFrameSort ==
    [][(variant = "MS01" /\ pc = "sort" /\ pc' = "image"
            /\ MS01_is_half_frame(images))
        => /\ Len(images') = Len(images)
           /\ {images'[i] : i \in DOMAIN images'} = {images[i] : i \in DOMAIN images}
           /\ \A i, j \in DOMAIN images' :
                i < j => FRAME_INFO_KEY[LeftOf(images'[i])]
                             <= FRAME_INFO_KEY[LeftOf(images'[j])]
           /\ \A i, j \in DOMAIN images :
                (i < j /\ LeftOf(images[i]) = LeftOf(images[j]))
                => \E a, b \in DOMAIN images' :
                       a < b /\ images'[a] = images[i] /\ images'[b] = images[j]
      ]_vars

\* a sorted half-frame roll in which two images of one left component stand
\* against the order of their names, before an image of a later frame whose
\* name is smaller
C2_Witness ==
    /\ variant = "MS01" /\ pc = "image" /\ Len(images) = 3
    /\ \A i \in DOMAIN images : Occurrences(MS01_frame_info(images[i]), "-") # {}
    /\ LeftOf(images[1]) = LeftOf(images[2])
    /\ PathLess(images[2], images[1])
    /\ FRAME_INFO_KEY[LeftOf(images[2])] < FRAME_INFO_KEY[LeftOf(images[3])]
    /\ MS01_frame_info(images[1]) # MS01_frame_info(images[2])

\* C3 as the specification states it: the images of a standard roll are in
\* the order of their file names, also across subdirectories
C3_ByFileName ==
    [][(variant = "MS01" /\ pc = "sort" /\ pc' = "image"
            /\ ~MS01_is_half_frame(images))
        => \A i, j \in DOMAIN images' :
             i < j => ~StrLess(Name(images'[j]), Name(images'[i]))
      ]_vars

\* C3: the sort of a standard roll keeps the images and puts them in the
\* order of their paths compared component by component: the directory
\* decides first, and the file name decides among images of one directory
C3_ByPath ==
    [][(variant = "MS01" /\ pc = "sort" /\ pc' = "image"
            /\ ~MS01_is_half_frame(images))
        => /\ Len(images') = Len(images)
           /\ {images'[i] : i \in DOMAIN images'} = {images[i] : i \in DOMAIN images}
           /\ \A i, j \in DOMAIN images' :
                i < j =>
                  \/ StrLess(Name(Parent(images'[i])), Name(Parent(images'[j])))
                  \/ /\ Parent(images'[i]) = Parent(images'[j])
                     /\ StrLess(Name(images'[i]), Name(images'[j]))
      ]_vars

\* a sorted standard roll in which an image stands before an image of
\* another directory whose file name is smaller
C3_Witness ==
    /\ variant = "MS01" /\ pc = "image" /\ Len(images) >= 2
    /\ \A i \in DOMAIN images : Occurrences(MS01_frame_info(images[i]), "-") = {}
    /\ \E i, j \in DOMAIN images :
         /\ i < j
         /\ Parent(images[i]) # Parent(images[j])
         /\ StrLess(Name(images[j]), Name(images[i]))

\* C4: every image of a roll gets a tag write, and every tag write of a roll
\* carries, as DateTimeOriginal and as DateTimeDigitized, the modification
\* time that the first image of the sorted order had when the run started
C4_BaseTime ==
    variant = "MS01" =>
      /\ \A r \in DOMAIN rolls :
           \E w \in {EffectsOf(r, "set_tags")} :
             w # <<>> =>
               \E base \in {ExifDateTime(OriginalOf(w[1].id).mtime)} :
                 \A k \in DOMAIN w : w[k].tags[1] = base /\ w[k].tags[2] = base
      /\ pc = "image" =>
           \E w \in {EffectsOf(rollIdx, "set_tags")} :
             /\ Len(w) = imageNum
             /\ \A k \in 1..imageNum : w[k].src = images[k]

\* a roll whose second image is older than its first, both written, the
\* first one rewritten by the grayscale conversion before
C4_Witness ==
    /\ variant = "MS01" /\ pc = "image" /\ imageNum >= 2
    /\ need_to_convert_bw
    /\ LET w == EffectsOf(rollIdx, "set_tags")
       IN  /\ OriginalOf(w[2].id).mtime.s < OriginalOf(w[1].id).mtime.s
           /\ w[2].tags[1] # ExifDateTime(OriginalOf(w[2].id).mtime)

\* C8 as the specification states it: without reorg every file lies in the
\* directory it was in when the run started
C8_OwnDirectory ==
    (variant = "MS01" /\ ~reorg) =>
      \A f \in fs : Parent(f.path) = Parent(OriginalOf(f.id).path)

\* roll r holds an image whose stem the frame-token pattern does not match
BadStem(r) ==
    \E f \in OriginalFiles(r) :
      /\ \E k \in DOMAIN ImageGlobs : Suffix(f.path) = ImageGlobs[k]
      /\ MS01_IMAGE_NAME_PATTERN(Stem(f.path)) = None

UnknownToken(r) ==
    /\ OriginalFiles(r) # {}
    /\ \A f \in OriginalFiles(r) :
         /\ MS01_IMAGE_NAME_PATTERN(Stem(f.path)) # None
         /\ Len(Split(MS01_frame_info(f.path))) = 2
    /\ \E f \in OriginalFiles(r) : LeftOf(f.path) \notin DOMAIN FRAME_INFO_KEY

\* C10 as the specification states it: a half-frame roll with an unknown
\* left component is skipped untouched and clean goes on with the next roll
C10_UnknownTokenSkipped ==
    variant = "MS01" =>
      \A r \in DOMAIN rolls :
        UnknownToken(r) =>
          /\ Untouched(r)
          /\ pc # "crashed"
          /\ (pc = "done" /\ r + 1 \in DOMAIN rolls) => EffectsOf(r + 1, "rename") # <<>>

---------------------------------------------------------------------------
(* Properties of more than one cleaner. *)

\* the method has run to its end for roll r
Finished(r) == IF entry = "clean" THEN rollIdx > r ELSE pc = "done"

\* the list the loop that writes the tags goes through, without the entries
\* it passes over
Sequenced ==
    SelectSeq(images, LAMBDA image_path :
        variant = "C4C5" => Head(Stem(image_path)) # ".")

\* C5: the tag writes of a roll carry, in their order and as
\* SubSecTimeOriginal and SubSecTimeDigitized alike, the three-digit offsets
\* 0, 1, 2, ...: write number k+1 carries k and is the write for the image at
\* position k of the order, so no two writes of a roll carry the same pair of
\* time and offset, and a loop that is through has written exactly 0 .. N-1
C5_SubSecOffsets ==
    /\ \A r \in DOMAIN rolls :
         \E w \in {EffectsOf(r, "set_tags")} :
           /\ \A k \in DOMAIN w :
                /\ Len(w[k].tags[3]) = 3
                /\ Int_(w[k].tags[3]) = k - 1
                /\ w[k].tags[4] = w[k].tags[3]
           /\ \A j, k \in DOMAIN w :
                j # k => <<w[j].tags[1], w[j].tags[3]>> # <<w[k].tags[1], w[k].tags[3]>>
    /\ pc \in {"image", "timestamp"} =>
         \E w \in {EffectsOf(rollIdx, "set_tags")} :
           /\ \A k \in DOMAIN w : w[k].src = Sequenced[k]
           /\ imageNum = Len(images) => Len(w) = Len(Sequenced)

\* the loop of a roll of three images is through, and its images were not
\* discovered in the order they were written in
C5_Witness ==
    /\ variant = "MS01" /\ pc = "image" /\ imageNum = 3 /\ Len(images) = 3
    /\ Len(EffectsOf(rollIdx, "set_tags")) = 3
    /\ \E i \in 1..2 : PathLess(images[i + 1], images[i])

\* the frame designator of a canonical name R<roll>F<frame>
FrameDesignator(path) == Int_(SubSeq(Stem(path), 7, Len(Stem(path))))

\* the images roll r held in its directory when the run started
RollImages(r) ==
    {f \in OriginalFiles(r) :
        /\ Parent(f.path) = rolls[r]
        /\ Lower(Suffix(f.path)) \in
               {<<".", "j", "p", "g">>, <<".", "t", "i", "f">>,
                <<".", "b", "m", "p">>}}

\* the directory name of roll r and the stems of its images are as the
\* position-numbering cleaners expect them
SixDigitRoll(r) ==
    /\ \A f \in OriginalFiles(r) : C4C5_IMAGE_NAME_PATTERN(Stem(f.path)) # None
    /\ variant = "C4C5" => C4C5_IMAGE_DIR_PATTERN(Name(rolls[r])) # None

\* C6 as the specification states it: when rename_images is through with a
\* roll, the image that is number k (from 0) among the images of the roll
\* in sorted order has been renamed to frame designator k+1, whatever else
\* the directory holds
C6_Designators ==
    variant \in {"C4C5", "FC"} =>
      \A r \in DOMAIN rolls :
        (Finished(r) /\ SixDigitRoll(r)) =>
          \A f \in RollImages(r) :
            \E i \in DOMAIN effects :
              /\ effects[i].op = "rename" /\ effects[i].roll = r
              /\ effects[i].id = f.id
              /\ FrameDesignator(effects[i].dst) =
                     Cardinality({g \in RollImages(r) : PathLess(g.path, f.path)}) + 1

\* the directory the specification sends the images of roll r to: the order
\* id is the directory name without its last six characters (and without
\* the delimiter before them in MS01), the date that of the time the first
\* image of the order had when the run started, the roll number the last
\* six characters as an integer padded to four digits
ReorgDestination(r) ==
    LET name == Name(rolls[r])
        cut == IF variant = "MS01" THEN 7 ELSE 6
        first == EffectsOf(r, "set_tags")[1].id
    IN  << SubSeq(name, 1, Len(name) - cut),
           DateDirNumber(OriginalOf(first).mtime),
           ZeroPad(Str(Int_(SubSeq(name, Len(name) - 5, Len(name)))), 4) >>

\* C7 as the specification states it: with reorg, when a cleaner is through
\* with a roll it accepts, every image of the roll lies in
\* <order_id>/<YYYYMMDD>/<roll number>
C7_ReorgDestination ==
    (reorg /\ variant \in {"MS01", "C4C5"}) =>
      \A r \in DOMAIN rolls :
        (/\ Finished(r)
         /\ EffectsOf(r, "set_tags") # <<>>
         /\ Len(Name(rolls[r])) <= 17
         /\ variant = "MS01" => EffectsOf(r, "rename") # <<>>
         /\ variant = "C4C5" => SixDigitRoll(r))
        => \A f \in fs :
             (\E g \in OriginalFiles(r) : g.id = f.id)
             => Parent(f.path) = ReorgDestination(r)

---------------------------------------------------------------------------
(* Failures, directories and later runs. *)

\* C11: a tag write that fails in FrontierCleanerMS01 is followed at once by
\* the rename of the same image; the roll stays in its loop until the loop
\* is through, and once clean has left the roll every image of the roll has
\* had its tag write and its rename
C11_WriteFailureContinues ==
    variant = "MS01" =>
      \A i \in DOMAIN effects :
        (effects[i].op = "set_tags" /\ ~effects[i].ok) =>
          /\ i + 1 \in DOMAIN effects
          /\ effects[i + 1].op = "rename"
          /\ effects[i + 1].id = effects[i].id
          /\ effects[i + 1].roll = effects[i].roll
          /\ rollIdx = effects[i].roll => pc = "image"
          /\ rollIdx > effects[i].roll =>
               \A f \in OriginalFiles(effects[i].roll) :
                 \A op \in {"set_tags", "rename"} :
                   \E j \in DOMAIN effects :
                     effects[j].op = op /\ effects[j].id = f.id

\* clean has left a roll of three images in which the write for the first
\* image failed and the writes for the later images succeeded
C11_Witness ==
    /\ variant = "MS01" /\ rollIdx > 1
    /\ \E w \in {EffectsOf(1, "set_tags")} :
         /\ Len(w) = 3
         /\ ~w[1].ok /\ w[2].ok /\ w[3].ok
    /\ Len(EffectsOf(1, "rename")) = 3

\* the directories that held the files of roll r when the run started, and
\* the roll directory
SourceDirs(r) == {Parent(f.path) : f \in OriginalFiles(r)} \cup {rolls[r]}

\* directory d holds no file and no directory
IsEmptyDir(d) ==
    /\ \A f \in fs : Parent(f.path) # d
    /\ \A e \in dirs : e = <<>> \/ Parent(e) # d

\* C12 as the specification states it: with reorg, when clean has left a
\* roll whose images it moved, every source directory of the roll that is
\* empty has been removed, whatever became of the others
C12_EmptyDirsRemoved ==
    (variant = "MS01" /\ reorg) =>
      \A r \in DOMAIN rolls :
        (rollIdx > r /\ EffectsOf(r, "rename") # <<>>) =>
          \A d \in SourceDirs(r) : d \in dirs => ~IsEmptyDir(d)

\* the roll directory a call of the record was made in
RollDirOf(e) == SubSeq(e.src, 1, 1)

\* the renames of the record
Renames == {i \in DOMAIN effects : effects[i].op = "rename"}

\* the run of call e was stopped in the roll of e
StoppedIn(e) ==
    \E k \in DOMAIN effects :
      /\ effects[k].op = "killed"
      /\ effects[k].run = e.run /\ effects[k].roll = e.roll

\* C13: in place, no file is renamed twice, in one run or in two, and a roll
\* directory in which a run that was not stopped there has renamed a file
\* sees no rename in any later run: the canonical names stop the later run
\* at that roll
C13_NoSecondRename ==
    ~reorg =>
      \A i, j \in Renames :
        i < j =>
          /\ effects[i].id # effects[j].id
          /\ (effects[i].run < effects[j].run /\ ~StoppedIn(effects[i]))
               => RollDirOf(effects[i]) # RollDirOf(effects[j])

\* the second run of FrontierCleanerMS01.clean has returned; the first run
\* had renamed the three images of the roll under test in place and was not
\* stopped
C13_Witness ==
    /\ variant = "MS01" /\ ~reorg /\ run = 2 /\ pc = "done"
    /\ \A i \in DOMAIN effects : effects[i].op # "killed"
    /\ Cardinality({i \in Renames :
           effects[i].run = 1 /\ RollDirOf(effects[i]) = MS01_RollDir}) = 3
    /\ \A f \in fs : IsBelow(f.path, MS01_RollDir) =>
           SubSeq(Name(f.path), 1, 6) = <<"R", "0", "1", "2", "3", "F">>

\* path carries a canonical name R<roll>F<frame> with the roll number padded
\* to four digits
Canonical(path) ==
    /\ Len(Stem(path)) >= 7
    /\ Stem(path)[1] = "R"
    /\ AllDigits(SubSeq(Stem(path), 2, 5))
    /\ Stem(path)[6] = "F"

\* the files of roll r that the cleaner renames when it accepts the roll:
\* every image for FrontierCleanerMS01, the jpg and bmp files of the roll
\* directory for cleanup_c4c5
Renamable(r) ==
    {f \in fs :
        /\ IsBelow(OriginalOf(f.id).path, rolls[r])
        /\ variant = "C4C5" =>
             /\ Parent(OriginalOf(f.id).path) = rolls[r]
             /\ Lower(Suffix(f.path)) \in
                    {<<".", "j", "p", "g">>, <<".", "b", "m", "p">>}}

\* C14 as the specification states it: in place, when the first run was
\* stopped in the loop of a roll and the second run has returned, the files
\* the first run renamed are where it put them and were not written again,
\* and every image of the roll carries a canonical name
C14_ResumptionCompletes ==
    (~reorg /\ variant \in {"MS01", "C4C5"} /\ run = 2 /\ pc = "done") =>
      \A k \in DOMAIN effects :
        (effects[k].op = "killed" /\ effects[k].run = 1) =>
          /\ \A i \in Renames :
               (effects[i].run = 1 /\ effects[i].roll = effects[k].roll) =>
                 /\ \E f \in fs :
                      f.path = effects[i].dst /\ f.id = effects[i].id
                 /\ \A j \in DOMAIN effects :
                      effects[j].run = 2 => effects[j].id # effects[i].id
          /\ \A f \in Renamable(effects[k].roll) : Canonical(f.path)

\* C15 as the specification states it: the sub-second value written for the
\* image at position k is k modulo 1000 in exactly three digits, also in a
\* roll of 1000 images and more
C15_SubSecWraps ==
    pc = "long roll written" =>
      /\ effects[1].tags[3] = Fmt(imageNum % 1000, 3)
      /\ effects[1].tags[4] = Fmt(imageNum % 1000, 3)
      /\ Len(effects[1].tags[3]) <= 3

---------------------------------------------------------------------------
(* Properties of frontier_cleanup.FrontierCleaner.clean and of the order of
   the steps of a roll. *)

\* the tag writes of the record
TagWrites == {i \in DOMAIN effects : effects[i].op = "set_tags"}

\* C16 as the specification states it: every tag write of the roll with
\* index i carries the time of the start of clean plus i seconds, and no two
\* writes of different rolls carry the same pair of time and offset
C16_BaseTimestamp ==
    (variant = "FC" /\ entry = "clean") =>
      /\ \A i \in TagWrites :
           effects[i].tags[1] =
               ExifDateTime(FC_base_timestamp(effects[i].roll - 1))
      /\ \A i, j \in TagWrites :
           effects[i].roll # effects[j].roll =>
             <<effects[i].tags[1], effects[i].tags[3]>>
                 # <<effects[j].tags[1], effects[j].tags[3]>>

\* roll r of cleanup_c4c5 fails the validation: its directory name or the
\* stem of one of its images does not match
C4C5_Invalid(r) ==
    \/ C4C5_IMAGE_DIR_PATTERN(Name(rolls[r])) = None
    \/ \E f \in OriginalFiles(r) :
         /\ \E k \in DOMAIN ImageGlobs : Suffix(f.path) = ImageGlobs[k]
         /\ C4C5_IMAGE_NAME_PATTERN(Stem(f.path)) = None

\* C17 as the specification states it: a roll of cleanup_c4c5 that fails the
\* validation sees no conversion, no unlink, no tag write and no rename, and
\* its files stay as they were
C17_RejectedUntouched ==
    variant = "C4C5" =>
      \A r \in DOMAIN rolls : C4C5_Invalid(r) => Untouched(r)

\* the conversions of the record
Conversions == {i \in DOMAIN effects : effects[i].op \in {"gray", "convert"}}

\* C18 as the specification states it: in a roll no conversion follows a tag
\* write, and when the tags of a roll are written the conversions of the
\* roll have been made: no BMP file is left in the roll directory
C18_ConversionFirst ==
    /\ \A i \in TagWrites : \A j \in Conversions :
         (effects[i].roll = effects[j].roll /\ effects[i].run = effects[j].run)
         => j < i
    /\ (variant \in {"C4C5", "FC"} /\ pc = "timestamp"
            /\ EffectsOf(rollIdx, "set_tags") # <<>>)
       => \A f \in fs :
            Parent(f.path) = rolls[rollIdx]
            => Lower(Suffix(f.path)) # <<".", "b", "m", "p">>

\* C19 as the specification states it: when clean of cleanup_c4c5 is through
\* with a valid roll, every jpg, tif and bmp image of the roll directory,
\* also a TIF that convert_bmps_to_tifs made, has been renamed to a canonical
\* name, and with reorg it has left the roll directory
C19_AllImagesRenamed ==
    variant = "C4C5" =>
      \A r \in DOMAIN rolls :
        (Finished(r) /\ SixDigitRoll(r)) =>
          \A f \in fs :
            (\E g \in RollImages(r) : g.id = f.id) =>
              /\ Canonical(f.path)
              /\ reorg => ~IsBelow(f.path, rolls[r])
              /\ \E i \in Renames : effects[i].id = f.id

\* C20 as the specification states it: in cleanup_c4c5 an image that is
\* renamed in a run carries the frame designator that is the offset written
\* to it in that run plus one
C20_SameOrder ==
    variant = "C4C5" =>
      \A i \in Renames : \A j \in TagWrites :
        (effects[i].id = effects[j].id /\ effects[i].run = effects[j].run)
        => FrameDesignator(effects[i].dst) = Int_(effects[j].tags[3]) + 1

---------------------------------------------------------------------------
(* Destinations, the date of a reorganised roll, and the order of discovery. *)

\* the files of roll r that are there now
FilesLeft(r) == {f \in fs : \E g \in OriginalFiles(r) : g.id = f.id}

\* C21 as the specification states it: when FrontierCleanerMS01 is through
\* with a roll it renamed, no two renames of the roll went to the same path,
\* and the roll has as many image files as it had when the run started
C21_DistinctDestinations ==
    variant = "MS01" =>
      \A r \in DOMAIN rolls :
        (rollIdx > r /\ EffectsOf(r, "rename") # <<>>) =>
          \E w \in {EffectsOf(r, "rename")} :
            /\ \A j, k \in DOMAIN w : j # k => w[j].dst # w[k].dst
            /\ Cardinality(FilesLeft(r)) = Cardinality(OriginalFiles(r))

\* the YYYYMMDD of the capture time a tag write carries as DateTimeOriginal
CaptureDate(e) ==
    SubSeq(e.tags[1], 1, 4) \o SubSeq(e.tags[1], 6, 7) \o SubSeq(e.tags[1], 9, 10)

\* C22 as the specification states it: with reorg, the date directory that
\* rename_images of cleanup_c4c5 has chosen for a roll is the date of the
\* capture time fix_timestamps wrote for the roll, which is the date of the
\* modification time the first image had when the run started (for a first
\* image that convert_bmps_to_tifs did not make)
C22_ReorgDate ==
    (variant = "C4C5" /\ reorg /\ pc = "rename") =>
      \E w \in {EffectsOf(rollIdx, "set_tags")} :
        w # <<>> =>
          /\ dest_dir[2] = CaptureDate(w[1])
          /\ (\A i \in Conversions : effects[i].id # w[1].id) =>
               dest_dir[2] = DateDirNumber(OriginalOf(w[1].id).mtime)

\* C23 as the specification states it: when FrontierCleanerMS01 has
\* collected the images of a roll and is about to sort them, every other
\* order in which the globs can give the same files makes the same roll
\* type, half-frame or standard, and the same outcome of the sort, accepted
\* or raised
C23_DiscoveryOrder ==
    (variant = "MS01" /\ pc = "sort") =>
      \A other \in ChainGlobs(rolls[rollIdx], 1) :
        /\ MS01_is_half_frame(other) = MS01_is_half_frame(images)
        /\ (MS01_sort(other).err = "") = (MS01_sort(images).err = "")

=============================================================================
